---- MODULE Spec2Model ----
(***************************************************************************)
(* A model of the digest endpoints of the News AI Agent API                *)
(* (api/routers/digest.py, api/security.py).                               *)
(*                                                                         *)
(* Text is a sequence of tokens.  A token is one character where the       *)
(* character matters (the five HTML-special characters, the characters of  *)
(* a date string) and a run of ordinary characters otherwise.  A Python    *)
(* value is a record [t, s]: its type and its text.  The rendered HTML is  *)
(* kept as the tree of the blocks the renderer emits, each leaf holding    *)
(* the text that the f-string puts there.                                  *)
(***************************************************************************)
EXTENDS Integers, Sequences, FiniteSets, TLC

\* ------------------------------------------------------------ Python values

None == [t |-> "none", s |-> <<>>]
Str(s) == [t |-> "str", s |-> s]
\* a datetime, carrying its isoformat() text
DateTime(iso) == [t |-> "datetime", s |-> iso]

\* a number other than 0, carrying str(value)
Number(text) == [t |-> "int", s |-> text]

\* bool(v) for None, str, list, datetime and non-zero number values
Truthy(v) == v.t # "none" /\ (v.t \in {"str", "list"} => v.s # <<>>)

\* article.get(key, default): the default only for an absent key
GetDefault(v, default) == v.s

\* `v or default`, for a field read with article.get(...)
OrElse(v, default) == IF Truthy(v) THEN v.s ELSE default

RECURSIVE Concat(_)
Concat(ss) == IF ss = <<>> THEN <<>> ELSE Head(ss) \o Concat(Tail(ss))

Take(s, n) == SubSeq(s, 1, IF Len(s) < n THEN Len(s) ELSE n)

Range(s) == {s[i] : i \in 1..Len(s)}

\* ------------------------------------------------------------ html.escape

SpecialChars == {"&", "<", ">", "\"", "'"}

EscapeCharNoQuote(c) ==
    CASE c = "&" -> "&amp;"
      [] c = "<" -> "&lt;"
      [] c = ">" -> "&gt;"
      [] OTHER   -> c

\* html.escape(s, quote=True), one character at a time
EscapeChar(c) ==
    CASE c = "&"  -> "&amp;"
      [] c = "<"  -> "&lt;"
      [] c = ">"  -> "&gt;"
      [] c = "\"" -> "&quot;"
      [] c = "'"  -> "&#x27;"
      [] OTHER    -> c

Escape(s) == [i \in 1..Len(s) |-> EscapeChar(s[i])]

\* ------------------------------------------------------------ header date

weekdays == <<"Montag", "Dienstag", "Mittwoch", "Donnerstag", "Freitag",
              "Samstag", "Sonntag">>

months == <<"Januar", "Februar", "März", "April", "Mai", "Juni", "Juli",
            "August", "September", "Oktober", "November", "Dezember">>

Digits == <<"0", "1", "2", "3", "4", "5", "6", "7", "8", "9">>

\* str(n) and the zero-padded "%d" of strftime, for 0 <= n <= 99
IntStr(n) == IF n < 10 THEN <<Digits[n + 1]>>
             ELSE <<Digits[(n \div 10) + 1], Digits[(n % 10) + 1]>>
Pad2(n) == <<Digits[(n \div 10) + 1], Digits[(n % 10) + 1]>>

\* now.strftime("%A, %d. %B %Y") under a German LC_TIME
StrftimeGerman(now) ==
    <<weekdays[now.weekday + 1], ", ">> \o Pad2(now.day)
        \o <<". ", months[now.month], " ", now.year>>

ManualDateSundayFirst(now) ==
    <<weekdays[((now.weekday + 6) % 7) + 1], ", ">> \o IntStr(now.day)
        \o <<". ", months[now.month], " ", now.year>>

\* f"{weekdays[now.weekday()]}, {now.day}. {months[now.month]} {now.year}"
ManualDate(now) ==
    <<weekdays[now.weekday + 1], ", ">> \o IntStr(now.day)
        \o <<". ", months[now.month], " ", now.year>>

\* The locale that the try/except chain leaves in LC_TIME: setlocale raises
\* for a locale that is not installed and changes nothing then.
LocaleAfter(installed, lc) ==
    IF "de_DE.UTF-8" \in installed THEN "de_DE.UTF-8"
    ELSE IF "de_DE" \in installed THEN "de_DE"
    ELSE lc

\* The date of the header: the first tier whose setlocale succeeds.
HeaderDate(now, installed) ==
    IF "de_DE.UTF-8" \in installed THEN StrftimeGerman(now)
    ELSE IF "de_DE" \in installed THEN StrftimeGerman(now)
    ELSE ManualDate(now)

\* ------------------------------------------------------------ published date

IsDigit(c) == c \in Range(Digits)
DigitVal(c) == (CHOOSE i \in 1..10 : Digits[i] = c) - 1
Num2(c1, c2) == 10 * DigitVal(c1) + DigitVal(c2)

IsLeap(y) == (y % 4 = 0 /\ y % 100 # 0) \/ y % 400 = 0
DaysIn(m, y) == IF m = 2 THEN (IF IsLeap(y) THEN 29 ELSE 28)
                ELSE IF m \in {4, 6, 9, 11} THEN 30 ELSE 31

\* pub_dt.replace('Z', '+00:00')
ReplaceZ(s) ==
    Concat([i \in 1..Len(s) |->
              IF s[i] = "Z" THEN <<"+", "0", "0", ":", "0", "0">> ELSE <<s[i]>>])

\* "+HH:MM", the only offset form the date strings of this model carry
IsOffset(s) ==
    /\ Len(s) = 6
    /\ s[1] \in {"+", "-"}
    /\ IsDigit(s[2]) /\ IsDigit(s[3]) /\ s[4] = ":" /\ IsDigit(s[5]) /\ IsDigit(s[6])
    /\ Num2(s[2], s[3]) < 24 /\ Num2(s[5], s[6]) < 60

\* one separator character, then "HH:MM:SS", then nothing or an offset
IsTimePart(s) ==
    /\ Len(s) \in {9, 15}
    /\ IsDigit(s[2]) /\ IsDigit(s[3]) /\ s[4] = ":"
    /\ IsDigit(s[5]) /\ IsDigit(s[6]) /\ s[7] = ":"
    /\ IsDigit(s[8]) /\ IsDigit(s[9])
    /\ Num2(s[2], s[3]) < 24 /\ Num2(s[5], s[6]) < 60 /\ Num2(s[8], s[9]) < 60
    /\ Len(s) = 15 => IsOffset(SubSeq(s, 10, 15))

\* Whether datetime.fromisoformat accepts s, for the forms "YYYY-MM-DD" and
\* "YYYY-MM-DD?HH:MM:SS[+HH:MM]"; every other text is taken as rejected.
IsIsoFormat(s) ==
    /\ Len(s) >= 10
    /\ \A i \in {1, 2, 3, 4, 6, 7, 9, 10} : IsDigit(s[i])
    /\ s[5] = "-" /\ s[8] = "-"
    /\ Num2(s[1], s[2]) * 100 + Num2(s[3], s[4]) >= 1
    /\ Num2(s[6], s[7]) \in 1..12
    /\ Num2(s[9], s[10]) >= 1
    /\ Num2(s[9], s[10]) <=
           DaysIn(Num2(s[6], s[7]), Num2(s[1], s[2]) * 100 + Num2(s[3], s[4]))
    /\ Len(s) > 10 => IsTimePart(SubSeq(s, 11, Len(s)))

\* dt.strftime("%d.%m.%Y") of the date that the ISO text s starts with
StrftimeDMY(s) == <<s[9], s[10], ".", s[6], s[7], ".", s[1], s[2], s[3], s[4]>>

DatumUnbekannt == <<"Datum unbekannt">>

PublishedDateNoZ(pub_dt) ==
    IF ~Truthy(pub_dt) THEN DatumUnbekannt
    ELSE IF pub_dt.t = "datetime" THEN StrftimeDMY(pub_dt.s)
    ELSE IF pub_dt.t = "str" THEN
        IF IsIsoFormat(pub_dt.s) THEN StrftimeDMY(pub_dt.s)
        ELSE IF Len(pub_dt.s) >= 10 THEN SubSeq(pub_dt.s, 1, 10)
        ELSE pub_dt.s
    ELSE Take(pub_dt.s, 10)

\* The published date of a card from article.get("published_at").  A datetime
\* value carries its ISO text; any other non-string value carries str(value).
PublishedDate(pub_dt) ==
    IF ~Truthy(pub_dt) THEN DatumUnbekannt
    ELSE IF pub_dt.t = "datetime" THEN StrftimeDMY(pub_dt.s)
    ELSE IF pub_dt.t = "str" THEN
        IF IsIsoFormat(ReplaceZ(pub_dt.s)) THEN StrftimeDMY(ReplaceZ(pub_dt.s))
        ELSE IF Len(pub_dt.s) >= 10 THEN SubSeq(pub_dt.s, 1, 10)
        ELSE pub_dt.s
    ELSE Take(pub_dt.s, 10)

\* ------------------------------------------------------------ the card

KeinTitel == <<"Kein Titel">>
UnbekannteQuelle == <<"Unbekannte Quelle">>
KeineZusammenfassung == <<"Keine Zusammenfassung verfügbar">>
NoUrl == <<"#">>

UpperCase == <<"A", "B", "C", "D", "E", "F", "G", "H", "I", "J", "K", "L", "M",
               "N", "O", "P", "Q", "R", "S", "T", "U", "V", "W", "X", "Y", "Z">>
LowerCase == <<"a", "b", "c", "d", "e", "f", "g", "h", "i", "j", "k", "l", "m",
               "n", "o", "p", "q", "r", "s", "t", "u", "v", "w", "x", "y", "z">>

LowerChar(c) == IF c \in Range(UpperCase)
                THEN LowerCase[CHOOSE i \in 1..26 : UpperCase[i] = c]
                ELSE c

\* a comparison that keeps the case
LowerKeepingCase(s) == s

\* str.lower()
Lower(s) == [i \in 1..Len(s) |-> LowerChar(s[i])]

High == <<"h", "i", "g", "h">>
Medium == <<"m", "e", "d", "i", "u", "m">>

\* The label of the <span> that get_priority_badge returns, "" for no badge
get_priority_badge(priority) ==
    IF priority = High THEN "HIGH"
    ELSE IF priority = Medium THEN "MEDIUM"
    ELSE ""

PriorityClass(priority) ==
    IF priority = High THEN "high-priority"
    ELSE IF priority = Medium THEN "medium-priority"
    ELSE ""

MaxTags == 5

FirstFourTags(article) ==
    Take(OrElse(article.topics, <<>>) \o OrElse(article.keywords, <<>>), 4)

\* all_tags = (topics + keywords)[:5]
AllTags(article) ==
    Take(OrElse(article.topics, <<>>) \o OrElse(article.keywords, <<>>), MaxTags)

\* keywords_html: no block for no tag, else one block of escaped chips
KeywordsHtml(article) ==
    IF AllTags(article) = <<>> THEN <<>>
    ELSE <<[i \in 1..Len(AllTags(article)) |-> Escape(AllTags(article)[i])]>>

\* title = html_escape.escape(article.get("title") or "Kein Titel")
TitleHtml(article) == Escape(OrElse(article.title, KeinTitel))

CategoryStr(article) ==
    IF Escape(OrElse(article.category, <<>>)) = <<>> THEN <<>>
    ELSE <<" | ">> \o Escape(OrElse(article.category, <<>>))

\* One <div class="article ..."> of the loop over the articles.  The template
\* of the card has no <img>: the only image of the document is the logo.
Card(article) ==
    [priority_class |-> PriorityClass(Lower(OrElse(article.priority, <<>>))),
     title          |-> TitleHtml(article),
     badge          |-> get_priority_badge(Lower(OrElse(article.priority, <<>>))),
     published_date |-> PublishedDate(article.published_at),
     source         |-> Escape(OrElse(article.source, UnbekannteQuelle)),
     category_str   |-> CategoryStr(article),
     summary        |-> Escape(OrElse(article.summary, KeineZusammenfassung)),
     keywords       |-> KeywordsHtml(article),
     img            |-> <<>>,
     href           |-> Escape(OrElse(article.url, NoUrl))]

\* ------------------------------------------------------------ the document

NoArticlesText == <<"Keine Artikel zum Anzeigen.",
                    "Es gibt aktuell keine ungesendeten Artikel mit Zusammenfassungen.">>

\* the sentence of the footer, word by word
FooterText == <<"Dieser", "Digest", "wurde", "automatisch", "von", "deinem",
                "News", "AI", "Agent", "generiert.">>

CardsReversed(articles) ==
    [i \in 1..Len(articles) |-> Card(articles[Len(articles) + 1 - i])]

\* for article in articles: one card each, in the order of the list
Cards(articles) == [i \in 1..Len(articles) |-> Card(articles[i])]

BodyStatsAlways(articles, total_candidates) ==
    [no_articles |-> IF Len(articles) = 0 THEN NoArticlesText ELSE <<>>,
     stats |-> <<[selected |-> Len(articles), candidates |-> total_candidates]>>,
     cards |-> Cards(articles)]

BodyTotalUnlessNegative(articles, total_candidates) ==
    IF Len(articles) = 0
    THEN [no_articles |-> NoArticlesText, stats |-> <<>>, cards |-> <<>>]
    ELSE [no_articles |-> <<>>,
          stats |-> <<[selected   |-> Len(articles),
                       candidates |-> IF total_candidates >= 0 THEN total_candidates
                                      ELSE Len(articles)]>>,
          cards |-> Cards(articles)]

\* if article_count == 0: the placeholder; else: the stats box and the cards
Body(articles, total_candidates) ==
    IF Len(articles) = 0
    THEN [no_articles |-> NoArticlesText, stats |-> <<>>, cards |-> <<>>]
    ELSE [no_articles |-> <<>>,
          stats |-> <<[selected   |-> Len(articles),
                       candidates |-> IF total_candidates > 0 THEN total_candidates
                                      ELSE Len(articles)]>>,
          cards |-> Cards(articles)]

\* the fixed line under the title of the header
Subtitle == "KI-kuratierte Auswahl der wichtigsten Nachrichten"

\* generate_digest_html(articles, total_candidates, usecase), with the clock and
\* the installed locales it reads.  The function has no tagline parameter: the
\* header is the logo, the title with the date and the fixed subtitle.
GenerateDigestHtml(articles, total_candidates, usecase, clock, locales) ==
    [logo     |-> "logo_base64",
     h1       |-> <<"Dein News Digest - ">> \o HeaderDate(clock, locales),
     subtitle |-> Subtitle,
     body     |-> Body(articles, total_candidates),
     footer   |-> [text |-> FooterText, usecase |-> usecase]]

\* html_escape.escape(v) and v.lower(): AttributeError for a value that is no
\* str, raised outside every try of the loop
EscapeRaises(v) == Truthy(v) /\ v.t # "str"
LowerRaises(v) == Truthy(v) /\ v.t # "str"

\* (topics + keywords)[:5] for topics and keywords that are None, a list or a
\* number: TypeError unless both operands are lists
TagsRaise(article) ==
    \E f \in {"topics", "keywords"} : Truthy(article[f]) /\ article[f].t # "list"

\* whether the loop body raises for this article
CardRaises(article) ==
    \/ \E f \in {"title", "source", "summary", "url", "category"} :
           EscapeRaises(article[f])
    \/ LowerRaises(article.priority)
    \/ TagsRaise(article)

\* The outcome of generate_digest_html for records of any type: the document,
\* or the exception that leaves the function from the loop
RenderOutcome(articles, total_candidates, usecase, clock, locales) ==
    IF \E i \in 1..Len(articles) : CardRaises(articles[i])
    THEN [raised |-> TRUE, doc |-> <<>>]
    ELSE [raised |-> FALSE,
          doc |-> <<GenerateDigestHtml(articles, total_candidates, usecase,
                                       clock, locales)>>]

\* ------------------------------------------------------------ inputs

MaxArticles == 2

List(s) == [t |-> "list", s |-> s]

Chars2026 == <<"2", "0", "2", "6", "-", "0", "1", "-", "0", "5">>
Xss == <<"<", "script", ">", "&", "\"", "'">>

Id1 == <<"00000000-0000-0000-0000-000000000001">>
Id2 == <<"00000000-0000-0000-0000-000000000002">>
Id3 == <<"00000000-0000-0000-0000-000000000003">>

ImageA == <<"https://example.com/image.jpg">>
ImageB == <<"https://example.com/other.png">>

\* an article with every display field set and no image
Full ==
    [id |-> Str(Id1), url |-> Str(<<"https://example.com/article">>),
     title |-> Str(<<"Titel A">>), source |-> Str(<<"Quelle A">>),
     summary |-> Str(<<"Zusammenfassung A">>), published_at |-> Str(Chars2026),
     priority |-> Str(High), category |-> Str(<<"Technik">>),
     topics |-> List(<<<<"t1">>>>), keywords |-> List(<<<<"k1">>>>),
     image_url |-> None]

\* an article with only id and url
Bare(url) ==
    [id |-> Str(Id2), url |-> url, title |-> None, source |-> None,
     summary |-> None, published_at |-> None, priority |-> None,
     category |-> None, topics |-> None, keywords |-> None, image_url |-> None]

\* every field present and empty
Blank ==
    [id |-> Str(Id3), url |-> Str(<<>>), title |-> Str(<<>>), source |-> Str(<<>>),
     summary |-> Str(<<>>), published_at |-> Str(<<>>), priority |-> Str(<<>>),
     category |-> Str(<<>>), topics |-> List(<<>>), keywords |-> List(<<>>),
     image_url |-> Str(<<>>)]

EscapedFields == {"title", "source", "summary", "url", "category"}

TopicLists == {None, List(<<<<"t1">>>>),
               List(<<<<"t1">>, <<"t2">>, <<"t3", "<">>, <<"t4">>>>)}
KeywordLists == {None, List(<<<<"k1">>, <<"k2">>>>),
                 List(<<<<"k1">>, <<"k2">>, <<"k3">>, <<"&", "k4">>>>)}

PublishedValues ==
    {DateTime(Chars2026),
     Str(Chars2026 \o <<"T", "1", "0", ":", "0", "0", ":", "0", "0", "Z">>),
     Str(<<"g", "e", "s", "t", "e", "r", "n">>),
     Str(<<"<", "s", "c", "r", "i", "p", "t", ">", "a", "b", "c">>),
     Number(<<"2", "0", "2", "6", "0", "1", "0", "5", "1", "2", "0", "0">>)}

PriorityValues ==
    {Str(<<"H", "I", "G", "H">>), Str(Medium), Str(<<"M", "e", "d", "i", "u", "m">>),
     Str(<<"l", "o", "w">>)}

RenderSamples ==
    {Full, Bare(None), Bare(Str(<<"https://example.com/bare">>)), Blank,
     [Full EXCEPT !.image_url = Str(ImageA)]}
    \cup {[Full EXCEPT ![f] = Str(Xss)] : f \in EscapedFields}
    \cup {[Full EXCEPT !.topics = t, !.keywords = k] :
              t \in TopicLists, k \in KeywordLists}
    \cup {[Full EXCEPT !.published_at = v] : v \in PublishedValues}
    \cup {[Full EXCEPT !.priority = v] : v \in PriorityValues}

ListsOf(S, n) == UNION {[1..k -> S] : k \in 0..n}

\* Monday 5 January 2026 and Sunday 15 March 2026
Dates == <<[weekday |-> 0, day |-> 5, month |-> 1, year |-> "2026"],
           [weekday |-> 6, day |-> 15, month |-> 3, year |-> "2026"]>>

LocaleSets == {{"de_DE.UTF-8", "de_DE"}, {"de_DE"}, {}}

\* ------------------------------------------------------------ state

VARIABLES
    store,        \* the articles table: id -> row
    now,          \* datetime.now()
    installed,    \* the locales setlocale accepts on this host
    lcTime,       \* the process-wide LC_TIME
    pc,           \* where the request in flight stands
    req,          \* the request in flight
    rows,         \* the handler's article list
    total,        \* the handler's total_candidates
    lookups,      \* the image lookups issued for the request, in order
    steps,        \* the steps of the handler run for the request, in order
    resp,         \* the response
    lastPreview,  \* the last preview answered: what it rendered from, and the HTML
    call,         \* a direct call of generate_digest_html: its arguments
    html,         \* and what it returned
    history,      \* the runs of a step that is called again: what each run
                  \* was given and what it returned
    recipients,   \* the recipients table: id -> row
    webhook,      \* the n8n webhook POST of the workflow request in flight
    pool,         \* database._pool: None or the pool it names
    pools,        \* every pool create_pool has made: pool -> open or closed
    callers       \* the coroutines inside get_pool or close_pool

vars == <<store, now, installed, lcTime, pc, req, rows, total, lookups, steps,
          resp, lastPreview, call, html, history, recipients, webhook, pool,
          pools, callers>>

\* what the calls of the digest renderer and the digest endpoints never touch
restVars == <<recipients, webhook, pool, pools, callers>>

NoWebhook == [outcome |-> "none"]
NoPool == 0

\* no recipient stored, no webhook called, no pool made
RestInit ==
    /\ recipients = <<>>
    /\ webhook = NoWebhook
    /\ pool = NoPool
    /\ pools = <<>>
    /\ callers = <<>>

httpVars == <<store, pc, req, rows, total, lookups, steps, resp, lastPreview>>

NoRequest == [endpoint |-> "none"]
NoResponse == [status |-> 0]

\* ------------------------------------------------------------ direct calls

InitRender ==
    /\ store = << >>
    /\ now = Dates[1]
    /\ installed \in {{"de_DE.UTF-8", "de_DE"}, {}}
    /\ lcTime = "C"
    /\ pc = "idle"
    /\ req = NoRequest
    /\ rows = <<>>
    /\ total = 0
    /\ lookups = <<>>
    /\ steps = <<>>
    /\ resp = NoResponse
    /\ lastPreview = <<>>
    /\ call \in [articles : ListsOf(RenderSamples, MaxArticles),
                 total_candidates : {-1, 0, 7},
                 usecase : {"daily_newsletter"}]
    /\ html = <<>>
    /\ history = <<>>
    /\ RestInit

\* html = generate_digest_html(articles, total_candidates, usecase)
CallRenderer ==
    /\ html = <<>>
    /\ html' = <<GenerateDigestHtml(call.articles, call.total_candidates,
                                    call.usecase, now, installed)>>
    /\ lcTime' = LocaleAfter(installed, lcTime)
    /\ UNCHANGED <<restVars, httpVars, now, installed, call, history>>

NextRender == CallRenderer

SpecRender == InitRender /\ [][NextRender]_vars

\* ------------------------------------------------------------ direct calls, every day of a year

\* the days of 2026 before month m
RECURSIVE DaysBefore(_)
DaysBefore(m) == IF m = 1 THEN 0 ELSE DaysBefore(m - 1) + DaysIn(m - 1, 2026)

\* datetime.weekday() of a day of 2026: 1 January 2026 is a Thursday
WeekdayOf(d, m) == (3 + DaysBefore(m) + d - 1) % 7

\* datetime.now() on each day of 2026
Calendar2026 ==
    UNION {{[weekday |-> WeekdayOf(d, m), day |-> d, month |-> m, year |-> "2026"] :
               d \in 1..DaysIn(m, 2026)} : m \in 1..12}

InitCalendar ==
    /\ store = << >>
    /\ now \in Calendar2026
    /\ installed \in LocaleSets
    /\ lcTime = "C"
    /\ pc = "idle"
    /\ req = NoRequest
    /\ rows = <<>>
    /\ total = 0
    /\ lookups = <<>>
    /\ steps = <<>>
    /\ resp = NoResponse
    /\ lastPreview = <<>>
    /\ call = [articles |-> <<>>, total_candidates |-> 0,
               usecase |-> "daily_newsletter"]
    /\ html = <<>>
    /\ history = <<>>
    /\ RestInit

SpecCalendar == InitCalendar /\ [][NextRender]_vars

\* ------------------------------------------------------------ direct calls, free-form records

Number42 == Number(<<"4", "2">>)

\* records as a JSON payload can carry them: a number where text or a list is
\* expected, a date that is a number or no date
FreeFormSamples ==
    {Full, Bare(None)}
    \cup {[Full EXCEPT ![f] = Number42] :
              f \in {"title", "source", "summary", "url", "category", "priority",
                     "topics", "keywords"}}
    \cup {[Full EXCEPT !.published_at = v] :
              v \in {Number(<<"2", "0", "2", "6", "0", "1", "0", "5">>),
                     Str(<<"g", "e", "s", "t", "e", "r", "n">>)}}

InitFreeForm ==
    /\ store = << >>
    /\ now = Dates[1]
    /\ installed \in {{"de_DE.UTF-8", "de_DE"}, {}}
    /\ lcTime = "C"
    /\ pc = "idle"
    /\ req = NoRequest
    /\ rows = <<>>
    /\ total = 0
    /\ lookups = <<>>
    /\ steps = <<>>
    /\ resp = NoResponse
    /\ lastPreview = <<>>
    /\ call \in [articles : ListsOf(FreeFormSamples, MaxArticles),
                 total_candidates : {0},
                 usecase : {"daily_newsletter"}]
    /\ html = <<>>
    /\ history = <<>>
    /\ RestInit

\* generate_digest_html(articles): the locale is set before the loop runs
CallRendererFreeForm ==
    /\ html = <<>>
    /\ html' = <<RenderOutcome(call.articles, call.total_candidates,
                               call.usecase, now, installed)>>
    /\ lcTime' = LocaleAfter(installed, lcTime)
    /\ UNCHANGED <<restVars, httpVars, now, installed, call, history>>

NextFreeForm == CallRendererFreeForm

SpecFreeForm == InitFreeForm /\ [][NextFreeForm]_vars

\* ------------------------------------------------------------ the article store

\* a row of the articles table
Row(id, title, published_at, image_url, fetched_at, processed, sent) ==
    [id |-> Str(id), url |-> Str(<<"https://example.com/article">>),
     title |-> Str(title), source |-> Str(<<"Quelle A">>),
     summary |-> Str(<<"Zusammenfassung A">>), published_at |-> published_at,
     priority |-> Str(High), category |-> Str(<<"Technik">>),
     topics |-> List(<<<<"t1">>>>), keywords |-> List(<<<<"k1">>>>),
     image_url |-> image_url, fetched_at |-> fetched_at,
     processed |-> processed, sent |-> sent]

Stores ==
    {<< >>,
     (Id1 :> Row(Id1, <<"Titel A">>, None, Str(ImageA), 3, TRUE, FALSE))
       @@ (Id2 :> Row(Id2, <<"Titel B">>, DateTime(Chars2026), None, 2,
                      TRUE, TRUE))}

\* dict(row) of the columns the preview selects, as the renderer reads it: the
\* query has no image_url column.  The id is kept as its text.
RowToArticle(row) ==
    [id |-> row.id, url |-> row.url, title |-> row.title, source |-> row.source,
     summary |-> row.summary, published_at |-> row.published_at,
     priority |-> row.priority, category |-> row.category,
     topics |-> row.topics, keywords |-> row.keywords, image_url |-> None]

CandidatesUnprocessedToo(st, include_sent) ==
    {i \in DOMAIN st : include_sent \/ ~st[i].sent}

\* WHERE processed = TRUE [AND sent = FALSE]
Candidates(st, include_sent) ==
    {i \in DOMAIN st : st[i].processed /\ (include_sent \/ ~st[i].sent)}

\* ORDER BY fetched_at DESC
RECURSIVE OrderByFetchedDesc(_, _)
OrderByFetchedDesc(st, ids) ==
    IF ids = {} THEN <<>>
    ELSE LET first == CHOOSE i \in ids :
                          \A j \in ids : st[j].fetched_at <= st[i].fetched_at
         IN  <<st[first]>> \o OrderByFetchedDesc(st, ids \ {first})

\* rows = await conn.fetch(query); articles = [dict(row) for row in rows]
FetchArticles(st, include_sent) ==
    LET found == OrderByFetchedDesc(st, Candidates(st, include_sent))
    IN  [i \in 1..Len(found) |-> RowToArticle(found[i])]

\* count_row = await conn.fetchrow(count_query)
CountArticles(st, include_sent) == Cardinality(Candidates(st, include_sent))

\* ------------------------------------------------------------ verify_api_key

API_KEY == <<"dev-api-key-change-in-production">>

VerifyMissingAsInvalid(api_key) ==
    IF api_key = None \/ api_key.s # API_KEY
    THEN [status |-> 403, detail |-> <<"Invalid", "API", "Key">>]
    ELSE [status |-> 200, detail |-> <<>>]

\* The outcome of the dependency: the HTTPException it raises, its detail word
\* by word, or 200 for a return of the key
verify_api_key(api_key) ==
    IF api_key = None
    THEN [status |-> 401,
          detail |-> <<"Missing", "API", "Key", ".", "Include", "'X-API-Key'",
                       "header", "in", "your", "request", ".">>]
    ELSE IF api_key.s # API_KEY
    THEN [status |-> 403, detail |-> <<"Invalid", "API", "Key">>]
    ELSE [status |-> 200, detail |-> <<>>]

\* ------------------------------------------------------------ image enrichment

IdText(article) == IF article.id.t = "none" THEN <<>> ELSE article.id.s
ImageText(article) == IF article.image_url.t = "none" THEN <<>> ELSE article.image_url.s

NeedsImageAny(article) == IdText(article) # <<>>

\* a record with an id and an empty or missing image_url
NeedsImage(article) == IdText(article) # <<>> /\ ImageText(article) = <<>>

RECURSIVE LookupIdsOfAll(_)
LookupIdsOfAll(articles) ==
    IF articles = <<>> THEN <<>>
    ELSE (IF IdText(Head(articles)) # <<>> THEN <<IdText(Head(articles))>> ELSE <<>>)
             \o LookupIdsOfAll(Tail(articles))

\* the ids of the batch lookup, in the order of the articles
RECURSIVE LookupIds(_)
LookupIds(articles) ==
    IF articles = <<>> THEN <<>>
    ELSE (IF NeedsImage(Head(articles)) THEN <<IdText(Head(articles))>> ELSE <<>>)
             \o LookupIds(Tail(articles))

\* lookup_image_urls(ids): the rows among ids with a non-null image_url
lookup_image_urls(st, ids) ==
    [i \in {j \in Range(ids) \cap DOMAIN st : st[j].image_url # None} |->
        st[i].image_url]

\* the copies of the articles with the images found merged in
Enriched(articles, found) ==
    [i \in 1..Len(articles) |->
        IF NeedsImage(articles[i]) /\ IdText(articles[i]) \in DOMAIN found
        THEN [articles[i] EXCEPT !.image_url = found[IdText(articles[i])]]
        ELSE articles[i]]

InputMergedInPlace(articles, found) == Enriched(articles, found)

\* the caller's list after the enrichment: the merge works on copies
InputAfterEnrichment(articles, found) == articles

\* ------------------------------------------------------------ requests

NoKey == None
Keys == {NoKey, Str(<<"wrong-key">>), Str(API_KEY)}

DefaultUsecase == "daily_newsletter"

\* the articles of the render requests: with and without id, with and without
\* image, in the store or not
WithId(article, id) == [article EXCEPT !.id = id]

HttpSamples ==
    {RowToArticle(Row(Id1, <<"Titel A">>, None, None, 0, TRUE, FALSE)),
     [Full EXCEPT !.image_url = Str(ImageB)],
     WithId(Bare(Str(<<"https://example.com/bare">>)), Str(Id2)),
     WithId(Bare(None), Str(Id3)),
     WithId(Bare(None), None)}

GetRequests ==
    [endpoint : {"preview", "data"}, key : Keys, include_sent : BOOLEAN]

\* total_candidates, usecase, tagline and recipient_emails of the render requests
RenderOptions ==
    {[total_candidates |-> 0, usecase |-> DefaultUsecase, tagline |-> "",
      recipient_emails |-> <<>>],
     [total_candidates |-> 1, usecase |-> DefaultUsecase, tagline |-> "",
      recipient_emails |-> <<"a@example.com">>],
     [total_candidates |-> 1, usecase |-> "weekly", tagline |-> "Test Tagline",
      recipient_emails |-> <<"b@example.com", "a@example.com">>]}

RenderRequests ==
    {[endpoint |-> "render", key |-> k, articles |-> a,
      total_candidates |-> o.total_candidates, usecase |-> o.usecase,
      tagline |-> o.tagline, recipient_emails |-> o.recipient_emails] :
        k \in Keys, a \in ListsOf(HttpSamples, MaxArticles), o \in RenderOptions}

Requests == GetRequests \cup RenderRequests

\* ------------------------------------------------------------ the endpoints

Init ==
    /\ store \in Stores
    /\ now = Dates[1]
    /\ installed \in {{"de_DE.UTF-8", "de_DE"}, {}}
    /\ lcTime = "C"
    /\ pc = "idle"
    /\ req = NoRequest
    /\ rows = <<>>
    /\ total = 0
    /\ lookups = <<>>
    /\ steps = <<>>
    /\ resp = NoResponse
    /\ lastPreview = <<>>
    /\ call = [articles |-> <<>>, total_candidates |-> 0, usecase |-> DefaultUsecase]
    /\ html = <<>>
    /\ history = <<>>
    /\ RestInit

envVars == <<store, now, installed, call, html, history>>

\* a request arrives
Receive(r) ==
    /\ pc = "idle"
    /\ req' = r
    /\ pc' = "auth"
    /\ rows' = <<>> /\ total' = 0 /\ lookups' = <<>> /\ steps' = <<>>
    /\ resp' = NoResponse
    /\ UNCHANGED <<restVars, envVars, lcTime, lastPreview>>

\* Depends(verify_api_key): solved before the handler is called
VerifyApiKey ==
    /\ pc = "auth"
    /\ IF verify_api_key(req.key).status = 200
       THEN /\ pc' = IF req.endpoint = "render" THEN "enrich"
                       ELSE IF req.endpoint \in {"preview", "data"} THEN "fetch"
                       ELSE "post"
            /\ resp' = resp
       ELSE /\ pc' = "done"
            /\ resp' = verify_api_key(req.key)
    /\ UNCHANGED <<restVars, envVars, lcTime, lastPreview, req, rows, total, lookups, steps>>

PreviewDivergentCopy(articles, total_candidates, clock, locales) ==
    [GenerateDigestHtml(articles, total_candidates, DefaultUsecase, clock, locales)
        EXCEPT !.footer.text =
                   <<"Dieser", "Digest", "wurde", "automatisch", "generiert.">>]

\* html = generate_digest_html(articles, total_candidates=total_candidates)
PreviewHtml(articles, total_candidates, clock, locales) ==
    GenerateDigestHtml(articles, total_candidates, DefaultUsecase, clock, locales)

\* preview_digest: rows = await conn.fetch(query)
PreviewFetch ==
    /\ pc = "fetch" /\ req.endpoint = "preview"
    /\ rows' = FetchArticles(store, req.include_sent)
    /\ steps' = Append(steps, "fetch")
    /\ pc' = "count"
    /\ UNCHANGED <<restVars, envVars, lcTime, lastPreview, req, total, lookups, resp>>

\* preview_digest: count_row = await conn.fetchrow(count_query)
PreviewCount ==
    /\ pc = "count"
    /\ total' = CountArticles(store, req.include_sent)
    /\ steps' = Append(steps, "count")
    /\ pc' = "render"
    /\ UNCHANGED <<restVars, envVars, lcTime, lastPreview, req, rows, lookups, resp>>

\* preview_digest: render and answer
PreviewRender ==
    /\ pc = "render" /\ req.endpoint = "preview"
    /\ resp' = [status |-> 200, media_type |-> "text/html",
                html |-> PreviewHtml(rows, total, now, installed)]
    /\ lastPreview' = <<[articles |-> rows, total_candidates |-> total,
                         now |-> now, html |-> resp'.html]>>
    /\ lcTime' = LocaleAfter(installed, lcTime)
    /\ steps' = Append(steps, "render")
    /\ pc' = "done"
    /\ UNCHANGED <<restVars, envVars, req, rows, total, lookups>>

\* one article of the data response
DigestArticle(st, id) ==
    [id |-> st[id].id.s, title |-> st[id].title.s, url |-> st[id].url.s,
     source |-> st[id].source.s, published_at |-> st[id].published_at,
     summary |-> st[id].summary, sent |-> st[id].sent]

\* get_digest_data: one fetch, then the response
GetDigestData ==
    /\ pc = "fetch" /\ req.endpoint = "data"
    /\ rows' = FetchArticles(store, req.include_sent)
    /\ steps' = Append(steps, "fetch")
    /\ resp' = [status |-> 200, media_type |-> "application/json",
                article_count |-> Len(rows'), include_sent |-> req.include_sent,
                generated_at |-> now,
                articles |-> [i \in 1..Len(rows') |->
                                 DigestArticle(store, rows'[i].id.s)]]
    /\ pc' = "done"
    /\ UNCHANGED <<restVars, envVars, lcTime, lastPreview, req, total, lookups>>

\* render: the enrichment finds nothing to look up and issues no store call
EnrichSkip ==
    /\ pc = "enrich"
    /\ LookupIds(req.articles) = <<>>
    /\ rows' = Enriched(req.articles, << >>)
    /\ req' = [req EXCEPT !.articles = InputAfterEnrichment(req.articles, << >>)]
    /\ steps' = Append(steps, "enrich")
    /\ pc' = "render"
    /\ UNCHANGED <<restVars, envVars, lcTime, lastPreview, total, lookups, resp>>

\* render: one batched lookup for the ids that need an image
EnrichLookup ==
    /\ pc = "enrich"
    /\ LookupIds(req.articles) # <<>>
    /\ lookups' = Append(lookups, LookupIds(req.articles))
    /\ rows' = Enriched(req.articles,
                        lookup_image_urls(store, LookupIds(req.articles)))
    /\ req' = [req EXCEPT !.articles =
                   InputAfterEnrichment(req.articles,
                       lookup_image_urls(store, LookupIds(req.articles)))]
    /\ steps' = Append(steps, "enrich")
    /\ pc' = "render"
    /\ UNCHANGED <<restVars, envVars, lcTime, lastPreview, total, resp>>

\* render: the store is unreachable during the lookup; the render fails
EnrichFails ==
    /\ pc = "enrich"
    /\ LookupIds(req.articles) # <<>>
    /\ lookups' = Append(lookups, LookupIds(req.articles))
    /\ resp' = [status |-> 500, detail |-> "Internal Server Error"]
    /\ steps' = Append(steps, "enrich")
    /\ pc' = "done"
    /\ UNCHANGED <<restVars, envVars, lcTime, lastPreview, req, rows, total>>

\* str(article.get("id")) of every article
ArticleIdsOfAll(articles) ==
    [i \in 1..Len(articles) |->
        IF articles[i].id.t = "none" THEN <<"None">> ELSE articles[i].id.s]

\* article_ids: the id of each article that has one, as text
RECURSIVE ArticleIds(_)
ArticleIds(articles) ==
    IF articles = <<>> THEN <<>>
    ELSE (IF IdText(Head(articles)) # <<>> THEN <<IdText(Head(articles))>> ELSE <<>>)
             \o ArticleIds(Tail(articles))

SubjectManualDate(clock, locales, article_count) ==
    <<"News Digest - ">> \o ManualDate(clock) \o <<" (">>
        \o IntStr(article_count) \o <<" kuratierte Artikel)">>

\* subject: the date of the date formatter and the article count
Subject(clock, locales, article_count) ==
    <<"News Digest - ">> \o HeaderDate(clock, locales) \o <<" (">>
        \o IntStr(article_count) \o <<" kuratierte Artikel)">>

\* render: render the enriched copies and answer
RenderRespond ==
    /\ pc = "render" /\ req.endpoint = "render"
    /\ resp' = [status |-> 200, media_type |-> "application/json",
                html_content |-> GenerateDigestHtml(rows, req.total_candidates,
                                                    req.usecase, now, installed),
                article_count |-> Len(rows),
                article_ids |-> ArticleIds(req.articles),
                recipient_emails |-> req.recipient_emails,
                recipient_count |-> Len(req.recipient_emails),
                subject |-> Subject(now, installed, Len(rows))]
    /\ lcTime' = LocaleAfter(installed, lcTime)
    /\ steps' = Append(steps, "render")
    /\ pc' = "done"
    /\ UNCHANGED <<restVars, envVars, lastPreview, req, rows, total, lookups>>

\* the response is sent; the worker waits for the next request
Finish ==
    /\ pc = "done"
    /\ pc' = "idle"
    /\ req' = NoRequest
    /\ rows' = <<>> /\ total' = 0 /\ lookups' = <<>> /\ steps' = <<>>
    /\ resp' = NoResponse
    /\ UNCHANGED <<restVars, envVars, lcTime, lastPreview>>

\* time passes between requests
Tick ==
    /\ pc = "idle"
    /\ now = Dates[1]
    /\ now' = Dates[2]
    /\ UNCHANGED <<restVars, store, installed, call, html, history, lcTime, pc, req, rows,
                   total, lookups, steps, resp, lastPreview>>

Next ==
    \/ \E r \in Requests : Receive(r)
    \/ VerifyApiKey
    \/ PreviewFetch
    \/ PreviewCount
    \/ PreviewRender
    \/ GetDigestData
    \/ EnrichSkip
    \/ EnrichLookup
    \/ EnrichFails
    \/ RenderRespond
    \/ Finish
    \/ Tick

Spec == Init /\ [][Next]_vars

\* ------------------------------------------------------------ previews while the table changes

\* the articles that the table can hold: Id2 was fetched after Id1
TableRows ==
    {Row(Id1, <<"Titel A">>, None, None, 1, p, s) : p \in BOOLEAN, s \in BOOLEAN}
    \cup {Row(Id2, <<"Titel B">>, None, None, 2, p, s) : p \in BOOLEAN, s \in BOOLEAN}

\* every table of at most one row per id
Tables ==
    {st \in UNION {[ids -> TableRows] : ids \in SUBSET {Id1, Id2}} :
        \A i \in DOMAIN st : st[i].id = Str(i)}

PreviewRequests ==
    [endpoint : {"preview"}, key : {Str(API_KEY)}, include_sent : BOOLEAN]

InitStore ==
    /\ store \in Tables
    /\ now = Dates[1]
    /\ installed = {}
    /\ lcTime = "C"
    /\ pc = "idle"
    /\ req = NoRequest
    /\ rows = <<>>
    /\ total = 0
    /\ lookups = <<>>
    /\ steps = <<>>
    /\ resp = NoResponse
    /\ lastPreview = <<>>
    /\ call = [articles |-> <<>>, total_candidates |-> 0, usecase |-> DefaultUsecase]
    /\ html = <<>>
    /\ history = <<>>
    /\ RestInit

tableFrame == <<now, installed, lcTime, pc, req, rows, total, lookups, steps, resp,
                lastPreview, call, html, history, restVars>>

\* set_article_sent of another request: UPDATE articles SET sent = $2 WHERE id = $1
SetArticleSent(id, sent) ==
    /\ id \in DOMAIN store
    /\ store' = [store EXCEPT ![id].sent = sent]
    /\ UNCHANGED tableFrame

\* set_article_processed of another request: UPDATE articles SET processed = $2
SetArticleProcessed(id, processed) ==
    /\ id \in DOMAIN store
    /\ store' = [store EXCEPT ![id].processed = processed]
    /\ UNCHANGED tableFrame

\* delete_article of another request: DELETE FROM articles WHERE id = $1
DeleteArticle(id) ==
    /\ id \in DOMAIN store
    /\ store' = [i \in DOMAIN store \ {id} |-> store[i]]
    /\ UNCHANGED tableFrame

\* the preview runs its two queries one after the other, outside a
\* transaction: the statements of other requests run before, between and after
NextStore ==
    \/ \E r \in PreviewRequests : Receive(r)
    \/ VerifyApiKey
    \/ PreviewFetch
    \/ PreviewCount
    \/ PreviewRender
    \/ Finish
    \/ \E id \in {Id1, Id2}, sent \in BOOLEAN : SetArticleSent(id, sent)
    \/ \E id \in {Id1, Id2}, processed \in BOOLEAN : SetArticleProcessed(id, processed)
    \/ \E id \in {Id1, Id2} : DeleteArticle(id)

SpecStore == InitStore /\ [][NextStore]_vars

\* ------------------------------------------------------------ direct calls, one after another

MaxCalls == 3

\* the arguments of the repeated calls
RepeatArgs ==
    [articles : {<<>>, <<Full>>, <<Bare(None), Full>>},
     total_candidates : {0, 7},
     usecase : {"daily_newsletter"}]

HtmlUnderLocaleInForce(args) ==
    [GenerateDigestHtml(args.articles, args.total_candidates, args.usecase,
                        now, installed)
        EXCEPT !.h1 = <<"Dein News Digest - ">>
                          \o (IF lcTime = "C" THEN ManualDate(now)
                              ELSE StrftimeGerman(now))]

\* generate_digest_html(articles, total_candidates, usecase) in the process
\* as it is now: the function sets the locale itself before it formats
HtmlOfCall(args) ==
    GenerateDigestHtml(args.articles, args.total_candidates, args.usecase,
                       now, installed)

InitRepeat ==
    /\ store = << >>
    /\ now = Dates[1]
    /\ installed \in {{"de_DE.UTF-8", "de_DE"}, {}}
    /\ lcTime = "C"
    /\ pc = "idle"
    /\ req = NoRequest
    /\ rows = <<>>
    /\ total = 0
    /\ lookups = <<>>
    /\ steps = <<>>
    /\ resp = NoResponse
    /\ lastPreview = <<>>
    /\ call = [articles |-> <<>>, total_candidates |-> 0,
               usecase |-> "daily_newsletter"]
    /\ html = <<>>
    /\ history = <<>>
    /\ RestInit

\* one more call in the same process, with any arguments
CallAgain(args) ==
    /\ Len(history) < MaxCalls
    /\ history' = Append(history,
                         [args |-> args, now |-> now, html |-> HtmlOfCall(args)])
    /\ lcTime' = LocaleAfter(installed, lcTime)
    /\ UNCHANGED <<restVars, httpVars, now, installed, call, html>>

NextRepeat ==
    \/ \E args \in RepeatArgs : CallAgain(args)
    \/ Tick

SpecRepeat == InitRepeat /\ [][NextRepeat]_vars

\* ------------------------------------------------------------ the enrichment, run again

MaxRuns == 2

\* the stores of the repeated runs: also one with an image for both ids
EnrichStores ==
    Stores \cup
    {(Id1 :> Row(Id1, <<"Titel A">>, None, Str(ImageA), 3, TRUE, FALSE))
       @@ (Id2 :> Row(Id2, <<"Titel B">>, None, Str(ImageB), 2, TRUE, FALSE))}

\* One run of the enrichment step on a batch: the store calls it issued and the
\* copies it returned
EnrichmentRun(st, articles) ==
    [input   |-> articles,
     lookups |-> IF LookupIds(articles) = <<>> THEN <<>>
                 ELSE <<LookupIds(articles)>>,
     output  |-> Enriched(articles, lookup_image_urls(st, LookupIds(articles)))]

InitEnrich ==
    /\ store \in EnrichStores
    /\ now = Dates[1]
    /\ installed = {}
    /\ lcTime = "C"
    /\ pc = "idle"
    /\ req = NoRequest
    /\ rows = <<>>
    /\ total = 0
    /\ lookups = <<>>
    /\ steps = <<>>
    /\ resp = NoResponse
    /\ lastPreview = <<>>
    /\ call \in [articles : ListsOf(HttpSamples, MaxArticles),
                 total_candidates : {0}, usecase : {DefaultUsecase}]
    /\ html = <<>>
    /\ history = <<>>
    /\ RestInit

\* the step runs on the batch, then again on what it returned
RunEnrichment ==
    /\ Len(history) < MaxRuns
    /\ history' = Append(history,
                         EnrichmentRun(store,
                                       IF history = <<>> THEN call.articles
                                       ELSE history[Len(history)].output))
    /\ UNCHANGED <<restVars, httpVars, now, installed, lcTime, call, html>>

NextEnrich == RunEnrichment

SpecEnrich == InitEnrich /\ [][NextEnrich]_vars

\* ------------------------------------------------------------ claims: the renderer

Returned == html # <<>>
Doc == html[1]
CardOf(i) == Doc.body.cards[i]

\* C1: for an empty article list the document holds the placeholder block with
\* the two fixed sentences and no stats box, no card and so no article link.
C1_EmptySet ==
    (Returned /\ call.articles = <<>>) =>
        /\ Doc.body.no_articles =
               <<"Keine Artikel zum Anzeigen.",
                 "Es gibt aktuell keine ungesendeten Artikel mit Zusammenfassungen.">>
        /\ Doc.body.stats = <<>>
        /\ Doc.body.cards = <<>>

C1_Witness == Returned /\ call.articles = <<>> /\ call.total_candidates > 0

\* the title an article is shown under, before escaping
ShownTitle(article) ==
    IF article.title.t = "none" \/ article.title.s = <<>>
    THEN <<"Kein Titel">> ELSE article.title.s

\* C2: for a non-empty list there is exactly one card per article and the
\* titles of the cards are the escaped titles of the articles, in input order.
C2_OrderPreserved ==
    (Returned /\ call.articles # <<>>) =>
        /\ Doc.body.no_articles = <<>>
        /\ Len(Doc.body.cards) = Len(call.articles)
        /\ \A i \in 1..Len(call.articles) :
               CardOf(i).title = Escape(ShownTitle(call.articles[i]))

C2_Witness ==
    /\ Returned
    /\ Len(call.articles) = 2
    /\ CardOf(1).title = <<"Kein Titel">>
    /\ CardOf(2).title = <<"&lt;", "script", "&gt;", "&amp;", "&quot;", "&#x27;">>

OnlyIdAndUrl(article) ==
    /\ article.id.t = "str"
    /\ \A f \in DOMAIN article \ {"id", "url"} : article[f] = None

\* C3: an article with only id and url renders, its card showing the four
\* fallback texts; without a url the link of the card is "#".
C3_FallbackTotality ==
    \A i \in 1..Len(call.articles) :
        (html # <<>> /\ OnlyIdAndUrl(call.articles[i])) =>
            /\ CardOf(i).title = <<"Kein Titel">>
            /\ CardOf(i).source = <<"Unbekannte Quelle">>
            /\ CardOf(i).summary = <<"Keine Zusammenfassung verfügbar">>
            /\ CardOf(i).published_date = <<"Datum unbekannt">>
            /\ call.articles[i].url = None => CardOf(i).href = <<"#">>
            /\ call.articles[i].url # None =>
                   CardOf(i).href = call.articles[i].url.s

C3_Witness ==
    /\ Returned
    /\ Len(call.articles) = 2
    /\ OnlyIdAndUrl(call.articles[1]) /\ call.articles[1].url = None
    /\ OnlyIdAndUrl(call.articles[2]) /\ call.articles[2].url # None

Entity(c) ==
    IF c = "&" THEN "&amp;" ELSE IF c = "<" THEN "&lt;" ELSE IF c = ">" THEN "&gt;"
    ELSE IF c = "\"" THEN "&quot;" ELSE IF c = "'" THEN "&#x27;" ELSE c

\* text is raw with each of & < > " ' replaced by its entity, and nothing else
EscapedFormOf(text, raw) ==
    /\ Len(text) = Len(raw)
    /\ \A j \in 1..Len(raw) : text[j] = Entity(raw[j])
    /\ \A j \in 1..Len(text) : text[j] \notin {"&", "<", ">", "\"", "'"}

FieldText(article, f) ==
    IF article[f].t = "none" THEN <<>> ELSE article[f].s

CombinedTags(article) ==
    (IF article.topics.t = "none" THEN <<>> ELSE article.topics.s)
        \o (IF article.keywords.t = "none" THEN <<>> ELSE article.keywords.s)

Chips(card) == IF card.keywords = <<>> THEN <<>> ELSE card.keywords[1]

C5_ImageIff ==
    \A i \in 1..Len(call.articles) :
        html # <<>> =>
            IF FieldText(call.articles[i], "image_url") # <<>>
            THEN CardOf(i).img = <<call.articles[i].image_url.s>>
            ELSE CardOf(i).img = <<>>

\* C6: the chips of a card are the first 5 of topics followed by keywords, in
\* that order; with no tag the block is left out.
C6_TagTruncation ==
    \A i \in 1..Len(call.articles) :
        html # <<>> =>
            LET tags == CombinedTags(call.articles[i])
                n    == IF Len(tags) < 5 THEN Len(tags) ELSE 5
            IN  /\ tags = <<>> <=> CardOf(i).keywords = <<>>
                /\ Len(Chips(CardOf(i))) = n
                /\ \A j \in 1..n : EscapedFormOf(Chips(CardOf(i))[j], tags[j])

C6_Witness ==
    /\ Returned
    /\ Len(call.articles) = 2
    /\ Len(CombinedTags(call.articles[1])) = 8
    /\ Len(Chips(CardOf(1))) = 5
    /\ Chips(CardOf(1))[4] = <<"t4">> /\ Chips(CardOf(1))[5] = <<"k1">>
    /\ Len(CombinedTags(call.articles[2])) = 5
    /\ Len(Chips(CardOf(2))) = 5
    /\ Chips(CardOf(2))[1] = <<"t1">> /\ Chips(CardOf(2))[5] = <<"&amp;", "k4">>

\* ------------------------------------------------------------ claims: the endpoints

KeyMissing == req.key.t = "none"
KeyWrong == req.key.t = "str" /\ req.key.s # <<"dev-api-key-change-in-production">>
Answered == pc = "done"

\* C7: on each digest endpoint a request without key is answered 401 and one
\* with a wrong key 403, and for neither does the handler run any step: no
\* store read, no image lookup, no rendering.
C7_AuthGating ==
    (pc # "idle" /\ (KeyMissing \/ KeyWrong)) =>
        /\ steps = <<>> /\ lookups = <<>> /\ rows = <<>>
        /\ pc \in {"auth", "done"}
        /\ DOMAIN resp \cap {"html", "html_content", "articles"} = {}
        /\ (Answered /\ KeyMissing) => resp.status = 401
        /\ (Answered /\ KeyWrong) => resp.status = 403

C7_Witness ==
    /\ Answered /\ req.endpoint = "render" /\ KeyMissing
    /\ Len(req.articles) = 2
    /\ resp.status = 401
    /\ lastPreview # <<>>

HasText(v) == v.t # "none" /\ v.s # <<>>

\* the positions of the records with an id and no image
Needy == {i \in 1..Len(req.articles) :
              HasText(req.articles[i].id) /\ ~HasText(req.articles[i].image_url)}

StoredImage(i) ==
    IF /\ i \in Needy
       /\ req.articles[i].id.s \in DOMAIN store
       /\ store[req.articles[i].id.s].image_url.t # "none"
    THEN store[req.articles[i].id.s].image_url
    ELSE req.articles[i].image_url

\* C9: a render looks up, in at most one store call, exactly the ids of the
\* records with an id and no image, issues no call when there is none, and
\* leaves a record as it is when the store returns no image for it.
C9_EnrichmentLookup ==
    (req.endpoint = "render" /\ steps # <<>>) =>
        /\ Len(lookups) <= 1
        /\ Needy = {} <=> lookups = <<>>
        /\ lookups # <<>> =>
               Range(lookups[1]) = {req.articles[i].id.s : i \in Needy}
        /\ resp.status # 500 =>
               /\ Len(rows) = Len(req.articles)
               /\ \A i \in 1..Len(rows) :
                      rows[i] = [req.articles[i] EXCEPT !.image_url = StoredImage(i)]

C9_Witness ==
    /\ req.endpoint = "render" /\ pc = "render"
    /\ Len(req.articles) = 2
    /\ lookups = <<<<<<"00000000-0000-0000-0000-000000000001">>,
                     <<"00000000-0000-0000-0000-000000000002">>>>>>
    /\ rows[1].image_url = Str(<<"https://example.com/image.jpg">>)
    /\ rows[2].image_url = None

AllPopulated(articles) ==
    \A i \in 1..Len(articles) : HasText(articles[i].image_url)

\* C11: when a run of the enrichment returned a batch in which every record
\* has an image, the next run on that batch issues no store lookup and returns
\* the same batch.
C11_EnrichmentIdempotent ==
    \A k \in 2..Len(history) :
        AllPopulated(history[k - 1].output) =>
            /\ history[k].lookups = <<>>
            /\ history[k].output = history[k - 1].output

C11_Witness ==
    /\ Len(history) >= 2
    /\ Len(history[1].input) = 2
    /\ history[1].lookups = <<<<<<"00000000-0000-0000-0000-000000000001">>,
                                <<"00000000-0000-0000-0000-000000000002">>>>>>
    /\ AllPopulated(history[1].output)
    /\ history[1].output # history[1].input
    /\ history[2].lookups = <<>>

\* ------------------------------------------------------------ claims: the render response

RenderAnswered == Answered /\ req.endpoint = "render" /\ resp.status = 200

\* the date that the header of a document shows, after "Dein News Digest - "
HeaderDateOf(doc) == Tail(doc.h1)

\* C12: the subject of a render response is "News Digest - ", the date that
\* the header of its html_content shows, " (", the number of cards of that
\* document, " kuratierte Artikel)".
C12_SubjectFormat ==
    RenderAnswered =>
        /\ resp.article_count = Len(resp.html_content.body.cards)
        /\ resp.subject =
               <<"News Digest - ">> \o HeaderDateOf(resp.html_content)
                   \o <<" (", Digits[resp.article_count + 1],
                        " kuratierte Artikel)">>

C12_Witness ==
    /\ RenderAnswered
    /\ Len(req.articles) = 2
    /\ "de_DE" \in installed
    /\ resp.subject = <<"News Digest - ", "Montag", ", ", "0", "5", ". ", "Januar",
                        " ", "2026", " (", "2", " kuratierte Artikel)">>

\* the positions of the articles of the request that have an id
WithIdPositions == {i \in 1..Len(req.articles) : HasText(req.articles[i].id)}

\* the k-th of them
WithIdPosition(k) ==
    CHOOSE i \in WithIdPositions :
        Cardinality({j \in WithIdPositions : j <= i}) = k

\* C13: in a render response article_count is the number of articles of the
\* request, article_ids holds the id text of exactly the articles with an id,
\* in request order, recipient_emails is the list of the request and
\* recipient_count its length.
C13_ResponseBookkeeping ==
    RenderAnswered =>
        /\ resp.article_count = Len(req.articles)
        /\ Len(resp.article_ids) = Cardinality(WithIdPositions)
        /\ \A k \in 1..Len(resp.article_ids) :
               resp.article_ids[k] = req.articles[WithIdPosition(k)].id.s
        /\ resp.recipient_emails = req.recipient_emails
        /\ resp.recipient_count = Len(req.recipient_emails)

C13_Witness ==
    /\ RenderAnswered
    /\ Len(req.articles) = 2
    /\ req.articles[1].id = None
    /\ resp.article_count = 2
    /\ resp.article_ids = <<<<"00000000-0000-0000-0000-000000000002">>>>
    /\ resp.recipient_emails = <<"b@example.com", "a@example.com">>
    /\ resp.recipient_count = 2

\* ------------------------------------------------------------ claims: the renderer, continued

\* C14: for a non-empty list the stats box shows as candidate total the
\* total_candidates of the call when that is positive, and the number of
\* articles when it is zero or negative.
C14_CandidateTotal ==
    (Returned /\ call.articles # <<>>) =>
        /\ Len(Doc.body.stats) = 1
        /\ call.total_candidates >= 1 =>
               Doc.body.stats[1].candidates = call.total_candidates
        /\ call.total_candidates <= 0 =>
               Doc.body.stats[1].candidates = Len(call.articles)

C14_Witness ==
    /\ Returned
    /\ Len(call.articles) = 2
    /\ call.total_candidates = -1
    /\ Doc.body.stats[1].candidates = 2

\* C15: every call of the renderer, whatever the fields of the records hold,
\* returns a document, and the document has one card per article.
C15_NeverFails ==
    html # <<>> =>
        /\ ~html[1].raised
        /\ Len(html[1].doc[1].body.cards) = Len(call.articles)

\* the first 10 characters of a text, the whole text when it is shorter
FirstTen(text) == [j \in 1..(IF Len(text) < 10 THEN Len(text) ELSE 10) |-> text[j]]

\* "YYYY-MM-DD..." shown as "DD.MM.YYYY"
DayMonthYear(iso) ==
    <<iso[9], iso[10], ".", iso[6], iso[7], ".", iso[1], iso[2], iso[3], iso[4]>>

\* C16: the published date of a card is, for a datetime, its DD.MM.YYYY; for
\* a string that parses as ISO-8601 once a Z is read as +00:00, the
\* DD.MM.YYYY of the date, and for any other string its first 10 characters;
\* for a value of another type the first 10 characters of its text; and
\* "Datum unbekannt" for a value that is absent (None or empty).
C16_PublishedDateChain ==
    \A i \in 1..Len(call.articles) :
        html # <<>> =>
            LET v == call.articles[i].published_at
                d == CardOf(i).published_date
            IN  /\ (v.t = "none" \/ (v.t = "str" /\ v.s = <<>>)) =>
                       d = <<"Datum unbekannt">>
                /\ v.t = "datetime" => d = DayMonthYear(v.s)
                /\ (v.t = "str" /\ v.s # <<>>) =>
                       IF IsIsoFormat(ReplaceZ(v.s))
                       THEN d = DayMonthYear(v.s)
                       ELSE d = FirstTen(v.s)
                /\ v.t = "int" => d = FirstTen(v.s)

C16_Witness ==
    /\ Returned
    /\ Len(call.articles) = 2
    /\ call.articles[1].published_at =
           Str(<<"2", "0", "2", "6", "-", "0", "1", "-", "0", "5", "T",
                 "1", "0", ":", "0", "0", ":", "0", "0", "Z">>)
    /\ CardOf(1).published_date =
           <<"0", "5", ".", "0", "1", ".", "2", "0", "2", "6">>
    /\ call.articles[2].published_at.t = "int"
    /\ CardOf(2).published_date =
           <<"2", "0", "2", "6", "0", "1", "0", "5", "1", "2">>

\* ------------------------------------------------------------ claims: the header date

GermanWeekday(n) ==
    CASE n = 0 -> "Montag" [] n = 1 -> "Dienstag" [] n = 2 -> "Mittwoch"
      [] n = 3 -> "Donnerstag" [] n = 4 -> "Freitag" [] n = 5 -> "Samstag"
      [] n = 6 -> "Sonntag"

GermanMonth(n) ==
    CASE n = 1 -> "Januar" [] n = 2 -> "Februar" [] n = 3 -> "März"
      [] n = 4 -> "April" [] n = 5 -> "Mai" [] n = 6 -> "Juni" [] n = 7 -> "Juli"
      [] n = 8 -> "August" [] n = 9 -> "September" [] n = 10 -> "Oktober"
      [] n = 11 -> "November" [] n = 12 -> "Dezember"

DayText(d) == IF d < 10 THEN <<Digits[d + 1]>>
              ELSE <<Digits[(d \div 10) + 1], Digits[(d % 10) + 1]>>

NoGermanLocale == installed \cap {"de_DE.UTF-8", "de_DE"} = {}

\* C17: every call returns a header date, and on a host where neither German
\* locale can be set that date is "<weekday>, <day>. <month> <year>" with the
\* German name of the weekday (Monday = 0) and of the month (January = 1).
C17_ManualDate ==
    Returned =>
        /\ Len(HeaderDateOf(Doc)) >= 7
        /\ NoGermanLocale =>
               HeaderDateOf(Doc) =
                   <<GermanWeekday(now.weekday), ", ">> \o DayText(now.day)
                       \o <<". ", GermanMonth(now.month), " ", "2026">>

C17_Witness ==
    /\ Returned
    /\ NoGermanLocale
    /\ now.month = 3 /\ now.day = 1
    /\ HeaderDateOf(Doc) = <<"Sonntag", ", ", "1", ". ", "März", " ", "2026">>

\* C18: no step of a render call changes the process-wide LC_TIME: after the
\* call it is what it was before the call.
C18_LocaleUnchanged == [][lcTime' = lcTime]_vars

HeaderTexts(doc) == Range(doc.h1) \cup {doc.subtitle}

\* C20: the header of the document of a render response shows the tagline of
\* the request when that is non-empty, and the fixed default otherwise.
C20_HeaderTagline ==
    RenderAnswered =>
        IF req.tagline # ""
        THEN req.tagline \in HeaderTexts(resp.html_content)
        ELSE resp.html_content.subtitle =
                 "KI-kuratierte Auswahl der wichtigsten Nachrichten"

\* ------------------------------------------------------------ claims: the preview

PreviewAnswered ==
    /\ Answered /\ req.endpoint = "preview"
    /\ req.key = Str(<<"dev-api-key-change-in-production">>)

\* the words of phrase stand in text, one after the other
Contains(text, phrase) ==
    \E i \in 1..Len(text) :
        /\ i + Len(phrase) - 1 <= Len(text)
        /\ \A j \in 1..Len(phrase) : text[i + j - 1] = phrase[j]

\* C21: whatever the store holds, an authenticated preview is answered 200
\* text/html with a document whose title is the "News Digest" title and whose
\* footer contains "AI News Agent".
C21_PreviewElements ==
    PreviewAnswered =>
        /\ resp.status = 200
        /\ resp.media_type = "text/html"
        /\ Head(resp.html.h1) = "Dein News Digest - "
        /\ Contains(resp.html.footer.text, <<"AI", "News", "Agent">>)

\* the ids of the processed articles of a table, without the sent ones unless
\* include_sent
FilterOf(st, include_sent) ==
    {i \in DOMAIN st :
        st[i].processed = TRUE /\ (include_sent = FALSE => st[i].sent = FALSE)}

RowIds(rs) == [k \in 1..Len(rs) |-> rs[k].id.s]

FetchedDescending(st, ids) ==
    \A k \in 1..(Len(ids) - 1) :
        st[ids[k]].fetched_at >= st[ids[k + 1]].fetched_at

\* C22: the article read of a preview returns exactly the processed articles
\* of the table, without the sent ones unless include_sent, each once, latest
\* fetched first; its count read returns the number of articles under the
\* same filter; and the document has the cards of the rows read, in order.
C22_PreviewFilter ==
    [][/\ (req.endpoint = "preview" /\ pc = "fetch" /\ pc' = "count") =>
              /\ Range(RowIds(rows')) = FilterOf(store, req.include_sent)
              /\ Len(rows') = Cardinality(FilterOf(store, req.include_sent))
              /\ FetchedDescending(store, RowIds(rows'))
       /\ (req.endpoint = "preview" /\ pc = "count" /\ pc' = "render") =>
              total' = Cardinality(FilterOf(store, req.include_sent))
       /\ (req.endpoint = "preview" /\ pc = "render" /\ pc' = "done") =>
              /\ Len(resp'.html.body.cards) = Len(rows)
              /\ \A k \in 1..Len(rows) :
                     resp'.html.body.cards[k].title = rows[k].title.s
      ]_vars

C22_Witness ==
    /\ PreviewAnswered
    /\ req.include_sent
    /\ RowIds(rows) = <<<<"00000000-0000-0000-0000-000000000002">>,
                        <<"00000000-0000-0000-0000-000000000001">>>>
    /\ rows[1].title = Str(<<"Titel B">>)
    /\ total = 2
    /\ Len(resp.html.body.cards) = 2
    /\ resp.html.body.cards[1].title = <<"Titel B">>

\* C29: the stats box of a preview never shows fewer candidates than the
\* document has cards.
C29_CandidatesCoverCards ==
    (PreviewAnswered /\ resp.html.body.stats # <<>>) =>
        resp.html.body.stats[1].candidates >= Len(resp.html.body.cards)

\* ------------------------------------------------------------ claims: the API key

\* C23: a request without X-API-Key is answered 401 with a detail containing
\* "Missing API key", and one with another key than the configured one 403
\* with a detail containing "Invalid API key".
C23_AuthDetails ==
    /\ (Answered /\ KeyMissing) =>
           /\ resp.status = 401
           /\ Contains(resp.detail, <<"Missing", "API", "key">>)
    /\ (Answered /\ KeyWrong) =>
           /\ resp.status = 403
           /\ Contains(resp.detail, <<"Invalid", "API", "key">>)

\* ------------------------------------------------ flag setters and recipients

MaxRequests == 2

Recipient1 == <<"10000000-0000-0000-0000-000000000001">>
Recipient2 == <<"10000000-0000-0000-0000-000000000002">>

RecipientIds == {Recipient1, Recipient2}
ArticleIds2 == {Id1, Id2}

RecipientRow(id, name, enabled) ==
    [id |-> id, email |-> <<"a@example.com">>, name |-> name, enabled |-> enabled]

\* what a statement with RETURNING * gives back: the table after it and the
\* row it returned, none when no row matched
Returning(table, id) ==
    [table |-> table, row |-> IF id \in DOMAIN table THEN <<table[id]>> ELSE <<>>]

\* UPDATE articles SET sent = $2 WHERE id = $1 RETURNING *
set_article_sent(table, id, sent) ==
    Returning([a \in DOMAIN table |->
                 IF a = id THEN [table[a] EXCEPT !.sent = sent] ELSE table[a]], id)

\* UPDATE articles SET processed = $2 WHERE id = $1 RETURNING *
set_article_processed(table, id, processed) ==
    Returning([a \in DOMAIN table |->
                 IF a = id THEN [table[a] EXCEPT !.processed = processed]
                 ELSE table[a]], id)

\* a setter that flips the flag instead of assigning it
set_recipient_enabled_flipping(table, id, enabled) ==
    Returning([r \in DOMAIN table |->
                 IF r = id THEN [table[r] EXCEPT !.enabled = ~table[r].enabled]
                 ELSE table[r]], id)

\* UPDATE recipients SET enabled = $2 WHERE id = $1 RETURNING *
set_recipient_enabled(table, id, enabled) ==
    Returning([r \in DOMAIN table |->
                 IF r = id THEN [table[r] EXCEPT !.enabled = enabled]
                 ELSE table[r]], id)

\* a toggle that always enables
toggle_recipient_enabling(table, id) ==
    set_recipient_enabled(table, id, TRUE)

\* UPDATE recipients SET enabled = NOT enabled WHERE id = $1 RETURNING *
toggle_recipient_enabled(table, id) ==
    Returning([r \in DOMAIN table |->
                 IF r = id THEN [table[r] EXCEPT !.enabled = ~table[r].enabled]
                 ELSE table[r]], id)

\* SELECT * FROM recipients WHERE id = $1
get_recipient_by_id(table, id) ==
    Returning(table, id)

\* UPDATE recipients SET name = $2 WHERE id = $1 RETURNING *
update_recipient_name(table, id, name) ==
    Returning([r \in DOMAIN table |->
                 IF r = id THEN [table[r] EXCEPT !.name = name] ELSE table[r]], id)

\* DELETE FROM recipients WHERE id = $1
delete_recipient_row(table, id) ==
    [r \in DOMAIN table \ {id} |-> table[r]]

ArticleNotFound == <<"Article", "not", "found">>
RecipientNotFound == <<"Recipient", "not", "found">>

\* the two tables as they are
BothTables == [articles |-> store, recipients |-> recipients]

\* the table an operation works on
TableOf(op) ==
    IF op \in {"mark-sent", "mark-unsent", "mark-processed", "mark-unprocessed"}
    THEN "articles" ELSE "recipients"

\* the handler's answer to a statement's outcome: the row with 200, or 404;
\* the log keeps the tables the call found
Answer(op, id, before, out, detail) ==
    [op |-> op, id |-> id, before |-> before,
     status |-> IF out.row = <<>> THEN 404 ELSE 200,
     body |-> out.row,
     detail |-> IF out.row = <<>> THEN detail ELSE <<>>]

InitSetters ==
    /\ store \in {t \in Tables : DOMAIN t = {Id1}}
    /\ recipients \in {[r \in {Recipient1} |-> RecipientRow(r, <<"Anna">>, e)] :
                          e \in BOOLEAN}
    /\ now = Dates[1]
    /\ installed = {}
    /\ lcTime = "C"
    /\ pc = "idle"
    /\ req = NoRequest
    /\ rows = <<>>
    /\ total = 0
    /\ lookups = <<>>
    /\ steps = <<>>
    /\ resp = NoResponse
    /\ lastPreview = NoResponse
    /\ call = NoRequest
    /\ html = NoResponse
    /\ history = <<>>
    /\ webhook = NoWebhook
    /\ pool = NoPool
    /\ pools = <<>>
    /\ callers = <<>>

setterFrame == <<now, installed, lcTime, pc, req, rows, total, lookups, steps, resp,
                 lastPreview, call, html, webhook, pool, pools, callers>>

\* an article handler answers: the table is as the statement left it
ArticleAnswers(op, id, out) ==
    /\ Len(history) < MaxRequests
    /\ store' = out.table
    /\ history' = Append(history, Answer(op, id, BothTables, out, ArticleNotFound))
    /\ UNCHANGED <<recipients, setterFrame>>

\* a recipient handler answers
RecipientAnswers(op, id, out) ==
    /\ Len(history) < MaxRequests
    /\ recipients' = out.table
    /\ history' = Append(history, Answer(op, id, BothTables, out, RecipientNotFound))
    /\ UNCHANGED <<store, setterFrame>>

\* PATCH /api/articles/{id}/mark-sent
mark_article_sent(id) ==
    ArticleAnswers("mark-sent", id, set_article_sent(store, id, TRUE))

\* PATCH /api/articles/{id}/mark-unsent
mark_article_unsent(id) ==
    ArticleAnswers("mark-unsent", id, set_article_sent(store, id, FALSE))

\* PATCH /api/articles/{id}/mark-processed
mark_article_processed(id) ==
    ArticleAnswers("mark-processed", id, set_article_processed(store, id, TRUE))

\* PATCH /api/articles/{id}/mark-unprocessed
mark_article_unprocessed(id) ==
    ArticleAnswers("mark-unprocessed", id, set_article_processed(store, id, FALSE))

\* GET /api/recipients/{id}
get_recipient(id) ==
    RecipientAnswers("get", id, get_recipient_by_id(recipients, id))

\* PUT /api/recipients/{id}: looks the recipient up, then updates it
update_recipient(id, name) ==
    RecipientAnswers("update", id,
        IF get_recipient_by_id(recipients, id).row = <<>>
        THEN get_recipient_by_id(recipients, id)
        ELSE update_recipient_name(recipients, id, name))

\* DELETE /api/recipients/{id}: looks the recipient up, then deletes it and
\* answers with a success message
delete_recipient(id) ==
    RecipientAnswers("delete", id,
        [table |-> delete_recipient_row(recipients, id),
         row |-> get_recipient_by_id(recipients, id).row])

\* PATCH /api/recipients/{id}/toggle
toggle_recipient(id) ==
    RecipientAnswers("toggle", id, toggle_recipient_enabled(recipients, id))

\* PATCH /api/recipients/{id}/enable
enable_recipient(id) ==
    RecipientAnswers("enable", id, set_recipient_enabled(recipients, id, TRUE))

\* PATCH /api/recipients/{id}/disable
disable_recipient(id) ==
    RecipientAnswers("disable", id, set_recipient_enabled(recipients, id, FALSE))

NextSetters ==
    \/ \E id \in ArticleIds2 : mark_article_sent(id)
    \/ \E id \in ArticleIds2 : mark_article_unsent(id)
    \/ \E id \in ArticleIds2 : mark_article_processed(id)
    \/ \E id \in ArticleIds2 : mark_article_unprocessed(id)
    \/ \E id \in RecipientIds : get_recipient(id)
    \/ \E id \in RecipientIds : update_recipient(id, <<"Neu">>)
    \/ \E id \in RecipientIds : delete_recipient(id)
    \/ \E id \in RecipientIds : toggle_recipient(id)
    \/ \E id \in RecipientIds : enable_recipient(id)
    \/ \E id \in RecipientIds : disable_recipient(id)

SpecSetters == InitSetters /\ [][NextSetters]_vars

\* the flag a setter assigns, and the value it assigns
SetterFlag ==
    [x \in {"mark-sent", "mark-unsent", "mark-processed", "mark-unprocessed",
            "enable", "disable"} |->
        CASE x \in {"mark-sent", "mark-unsent"} -> "sent"
          [] x \in {"mark-processed", "mark-unprocessed"} -> "processed"
          [] OTHER -> "enabled"]

SetterValue ==
    [x \in DOMAIN SetterFlag |-> x \in {"mark-sent", "mark-processed", "enable"}]

FlagIn(row, flag) ==
    CASE flag = "sent" -> row.sent
      [] flag = "processed" -> row.processed
      [] OTHER -> row.enabled

\* the table call k of the log worked on, as the call found it and as it is
\* once the call is over
TableBefore(k) ==
    history[k].before[TableOf(history[k].op)]

TableAfter(k) ==
    IF k < Len(history) THEN history[k + 1].before[TableOf(history[k].op)]
    ELSE BothTables[TableOf(history[k].op)]

\* two calls in a row of the same operation on the same id
Twice(k) ==
    /\ k \in 2..Len(history)
    /\ history[k].op = history[k - 1].op
    /\ history[k].id = history[k - 1].id

\* C24: a flag setter (mark-sent, mark-unsent, mark-processed, mark-unprocessed of
\* an article; enable, disable of a recipient) called twice in a row on a row that
\* exists answers 200 both times, and the flag after the second call is the flag
\* after the first one: the value the setter names
C24_SettersIdempotent ==
    \A k \in 1..Len(history) :
        (/\ Twice(k)
         /\ history[k].op \in DOMAIN SetterFlag
         /\ history[k].id \in DOMAIN TableBefore(k - 1))
        => LET flag == SetterFlag[history[k].op]
               id == history[k].id
           IN  /\ history[k - 1].status = 200
               /\ history[k].status = 200
               /\ FlagIn(history[k - 1].body[1], flag) = SetterValue[history[k].op]
               /\ FlagIn(history[k].body[1], flag)
                      = FlagIn(history[k - 1].body[1], flag)
               /\ FlagIn(TableAfter(k)[id], flag)
                      = FlagIn(TableBefore(k)[id], flag)

\* a recipient that was enabled has been disabled twice in a row
C24_Witness ==
    /\ Len(history) = 2
    /\ Twice(2)
    /\ history[2].op = "disable"
    /\ history[2].id = Recipient1
    /\ TableBefore(1)[Recipient1].enabled
    /\ history[2].status = 200
    /\ ~recipients[Recipient1].enabled

RecipientOps == {"get", "update", "delete", "toggle", "enable", "disable"}

\* C25: a toggle of a recipient that exists answers 200 with the flag flipped,
\* and the table holds the flipped flag; two toggles in a row leave the flag as
\* it was before the first; get, update, delete, toggle, enable and disable of an
\* id that is not in the table answer 404 and leave the table as it was
C25_ToggleAndNotFound ==
    \A k \in 1..Len(history) :
        LET e == history[k] IN
        /\ (e.op = "toggle" /\ e.id \in DOMAIN TableBefore(k))
           => /\ e.status = 200
              /\ e.body[1].enabled = ~TableBefore(k)[e.id].enabled
              /\ TableAfter(k)[e.id].enabled = ~TableBefore(k)[e.id].enabled
        /\ (Twice(k) /\ e.op = "toggle" /\ e.id \in DOMAIN TableBefore(k - 1))
           => /\ e.status = 200
              /\ e.body[1].enabled = TableBefore(k - 1)[e.id].enabled
              /\ TableAfter(k)[e.id].enabled = TableBefore(k - 1)[e.id].enabled
        /\ (e.op \in RecipientOps /\ e.id \notin DOMAIN TableBefore(k))
           => /\ e.status = 404
              /\ e.detail = RecipientNotFound
              /\ TableAfter(k) = TableBefore(k)

\* a recipient has been toggled twice in a row
C25_Witness ==
    /\ Len(history) = 2
    /\ Twice(2)
    /\ history[2].op = "toggle"
    /\ history[2].id = Recipient1
    /\ history[2].status = 200
    /\ recipients[Recipient1].enabled = TableBefore(1)[Recipient1].enabled

\* the priority of an article as it was given: "" when absent, null or empty
GivenPriority(article) ==
    IF article.priority.t = "str" THEN article.priority.s ELSE <<>>

\* text spells word in upper-case letters, lower-case letters or a mix of them
Spells(text, word) ==
    /\ Len(text) = Len(word)
    /\ \A i \in 1..Len(word) :
           \E k \in 1..26 : LowerCase[k] = word[i] /\ text[i] \in {LowerCase[k], UpperCase[k]}

\* C26: a card whose article's priority lower-cases to "high" carries the HIGH
\* badge and the class high-priority, one whose priority lower-cases to "medium"
\* the MEDIUM badge and the class medium-priority, and the card of every other
\* priority (absent, null, empty, "low") carries no badge and no priority class
C26_PriorityDecoration ==
    Returned =>
        \A i \in 1..Len(call.articles) :
            LET given == GivenPriority(call.articles[i]) IN
            /\ Spells(given, High)
               => CardOf(i).badge = "HIGH" /\ CardOf(i).priority_class = "high-priority"
            /\ Spells(given, Medium)
               => /\ CardOf(i).badge = "MEDIUM"
                  /\ CardOf(i).priority_class = "medium-priority"
            /\ ~Spells(given, High) /\ ~Spells(given, Medium)
               => CardOf(i).badge = "" /\ CardOf(i).priority_class = ""

\* a card of priority "HIGH" next to a card of priority "low"
C26_Witness ==
    /\ Returned
    /\ Len(call.articles) = 2
    /\ call.articles[1].priority = Str(<<"H", "I", "G", "H">>)
    /\ CardOf(1).badge = "HIGH"
    /\ call.articles[2].priority = Str(<<"l", "o", "w">>)
    /\ CardOf(2).badge = ""

\* ------------------------------------------------------- workflow triggers

Bool(b) == [t |-> "bool", s |-> IF b THEN <<"true">> ELSE <<"false">>]

\* the webhook path, the timeout and the success message of each endpoint
Workflows ==
    [scrape |->
        [path |-> "scrape-feeds", timeout |-> 60,
         message |-> "RSS scraping workflow triggered successfully"],
     summarize |->
        [path |-> "summarize", timeout |-> 120,
         message |-> "AI summarization workflow triggered successfully"],
     send_digest |->
        [path |-> "send-digest", timeout |-> 120,
         message |-> "Email digest workflow triggered successfully"],
     linkedin_posting |->
        [path |-> "linkedin-posting", timeout |-> 60,
         message |-> "LinkedIn post generation workflow triggered successfully"],
     x_posting |->
        [path |-> "x-posting", timeout |-> 60,
         message |-> "X post generation workflow triggered successfully"],
     discover_feeds |->
        [path |-> "discover-rss-feeds", timeout |-> 120,
         message |-> "RSS feed discovery workflow triggered successfully"]]

\* the request bodies, per endpoint
WorkflowBodies ==
    [scrape |-> {[feed_ids |-> v] : v \in {None, List(<<>>), List(<<Id1>>)}},
     summarize |-> {[limit |-> v, article_ids |-> None] :
                       v \in {None, Number(<<"0">>)}},
     send_digest |-> {[recipient_ids |-> None, force |-> Bool(f)] : f \in BOOLEAN},
     linkedin_posting |-> {[raw_content |-> Str(<<"Nachricht">>),
                            style |-> Str(<<"professional">>)]},
     x_posting |-> {[raw_content |-> Str(<<"Nachricht">>),
                     style |-> Str(<<"professional">>)]},
     discover_feeds |-> {[message |-> Str(<<"Automobilbranche">>)]}]

WorkflowRequests ==
    UNION {{[endpoint |-> e, key |-> k, body |-> b] :
               k \in Keys, b \in WorkflowBodies[e]} : e \in DOMAIN Workflows}

\* the entries of a body that pass the test the handler puts them to
Kept(body, fields) ==
    [f \in {g \in fields : Truthy(body[g])} |-> body[f]]

\* the payload each handler builds from its request
Payload(endpoint, body) ==
    CASE endpoint = "scrape" -> Kept(body, {"feed_ids"})
      [] endpoint = "summarize" ->
            [f \in {g \in {"article_ids"} : Truthy(body[g])}
                   \cup {g \in {"limit"} : body[g] # None} |-> body[f]]
      [] endpoint = "send_digest" ->
            [f \in {g \in {"recipient_ids"} : Truthy(body[g])}
                   \cup {g \in {"force"} : body[g] = Bool(TRUE)} |-> body[f]]
      [] OTHER -> body

\* what the POST can come to: no answer in time, no connection, or a response
WebhookStatuses == {200, 204, 302, 404, 500}
WebhookContents == {"empty", "json", "text"}

WebhookOutcomes ==
    {[kind |-> "timeout"], [kind |-> "unreachable"]}
    \cup {[kind |-> "response", status |-> c, content |-> b] :
             c \in WebhookStatuses, b \in WebhookContents}

\* Response.is_success
IsSuccess(status_code) == status_code \in 200..299

\* a trigger that does not call raise_for_status
trigger_n8n_webhook_any_status(outcome) ==
    CASE outcome.kind = "timeout" ->
            [raised |-> 503,
             detail |-> <<"n8n webhook timeout - service may be unavailable">>]
      [] outcome.kind = "unreachable" ->
            [raised |-> 503,
             detail |-> <<"n8n webhook unreachable - service may be down">>]
      [] outcome.content = "text" ->
            [raised |-> 500, detail |-> <<"Internal Server Error">>]
      [] OTHER -> [raised |-> 0, detail |-> <<>>]

\* trigger_n8n_webhook: what it raises, 0 for a return. A body that is not
\* JSON makes response.json() raise past the three handlers.
trigger_n8n_webhook(outcome) ==
    CASE outcome.kind = "timeout" ->
            [raised |-> 503,
             detail |-> <<"n8n webhook timeout - service may be unavailable">>]
      [] outcome.kind = "unreachable" ->
            [raised |-> 503,
             detail |-> <<"n8n webhook unreachable - service may be down">>]
      [] ~IsSuccess(outcome.status) ->
            [raised |-> 502,
             detail |-> <<"n8n webhook returned error:", ToString(outcome.status)>>]
      [] outcome.content = "text" ->
            [raised |-> 500, detail |-> <<"Internal Server Error">>]
      [] OTHER -> [raised |-> 0, detail |-> <<>>]

InitWorkflows ==
    /\ store = << >>
    /\ now = Dates[1]
    /\ installed = {}
    /\ lcTime = "C"
    /\ pc = "idle"
    /\ req = NoRequest
    /\ rows = <<>>
    /\ total = 0
    /\ lookups = <<>>
    /\ steps = <<>>
    /\ resp = NoResponse
    /\ lastPreview = NoResponse
    /\ call = NoRequest
    /\ html = NoResponse
    /\ history = <<>>
    /\ RestInit

workflowFrame == <<store, now, installed, lcTime, rows, total, lookups, lastPreview,
                   call, html, history, recipients, pool, pools, callers>>

\* client.post(url, json=payload or {}) is sent and awaited
PostWebhook ==
    /\ pc = "post"
    /\ webhook' = [path |-> Workflows[req.endpoint].path,
                   payload |-> Payload(req.endpoint, req.body),
                   timeout |-> Workflows[req.endpoint].timeout,
                   outcome |-> [kind |-> "pending"]]
    /\ steps' = Append(steps, "post")
    /\ pc' = "posted"
    /\ UNCHANGED <<req, resp, workflowFrame>>

\* the POST comes to an end
WebhookReturns(outcome) ==
    /\ pc = "posted"
    /\ webhook' = [webhook EXCEPT !.outcome = outcome]
    /\ pc' = "returned"
    /\ UNCHANGED <<req, resp, steps, workflowFrame>>

\* the handler goes on after the await: the exception becomes the response,
\* or the handler returns its SuccessResponse
TriggerResponds ==
    /\ pc = "returned"
    /\ LET result == trigger_n8n_webhook(webhook.outcome) IN
         resp' = IF result.raised # 0
                 THEN [status |-> result.raised, body |-> [detail |-> result.detail]]
                 ELSE [status |-> 200,
                       body |-> [success |-> TRUE,
                                 message |-> Workflows[req.endpoint].message]]
    /\ steps' = Append(steps, "respond")
    /\ pc' = "done"
    /\ UNCHANGED <<req, webhook, workflowFrame>>

NextWorkflows ==
    \/ \E r \in WorkflowRequests : Receive(r)
    \/ VerifyApiKey
    \/ PostWebhook
    \/ \E outcome \in WebhookOutcomes : WebhookReturns(outcome)
    \/ TriggerResponds
    \/ Finish

SpecWorkflows == InitWorkflows /\ [][NextWorkflows]_vars

\* the request in flight is a workflow trigger that has been answered after
\* its webhook POST came to an end
TriggerAnswered ==
    /\ pc = "done"
    /\ req.endpoint \in DOMAIN Workflows
    /\ Len(steps) = 2

SaysSuccess(response) ==
    /\ "success" \in DOMAIN response.body
    /\ response.body.success

\* C27: a workflow trigger answers with its success response only if the webhook
\* POST ended in a response with a 2xx status; a POST that timed out or did not
\* connect is answered 503 and a response with another status 502, and none of
\* these answers says success
C27_SuccessOnly2xx ==
    TriggerAnswered =>
        LET outcome == webhook.outcome IN
        /\ (resp.status = 200 \/ SaysSuccess(resp))
           => /\ outcome.kind = "response"
              /\ outcome.status \in {200, 204}
        /\ outcome.kind \in {"timeout", "unreachable"}
           => resp.status = 503 /\ ~SaysSuccess(resp)
        /\ (outcome.kind = "response" /\ outcome.status \in {302, 404, 500})
           => resp.status = 502 /\ ~SaysSuccess(resp)

\* a trigger was answered 502 after the webhook responded 500
C27_Witness ==
    /\ TriggerAnswered
    /\ req.endpoint = "scrape"
    /\ webhook.outcome.kind = "response"
    /\ webhook.outcome.status = 500
    /\ resp.status = 502

\* ------------------------------------------------------ the connection pool

MaxPools == 3

\* the coroutines that call get_pool: the lifespan at startup and two requests
PoolUsers == {"startup", "request1", "request2"}

\* the coroutine that calls close_pool: the lifespan at shutdown
Shutdown == "shutdown"

Outside == [pc |-> "outside", got |-> NoPool]

InitPool ==
    /\ store = << >>
    /\ now = Dates[1]
    /\ installed = {}
    /\ lcTime = "C"
    /\ pc = "idle"
    /\ req = NoRequest
    /\ rows = <<>>
    /\ total = 0
    /\ lookups = <<>>
    /\ steps = <<>>
    /\ resp = NoResponse
    /\ lastPreview = NoResponse
    /\ call = NoRequest
    /\ html = NoResponse
    /\ history = <<>>
    /\ recipients = <<>>
    /\ webhook = NoWebhook
    /\ pool = NoPool
    /\ pools = <<>>
    /\ callers = [c \in PoolUsers \cup {Shutdown} |-> Outside]

poolFrame == <<store, now, installed, lcTime, pc, req, rows, total, lookups, steps,
               resp, lastPreview, call, html, history, recipients, webhook>>

\* get_pool up to its first await: _pool is returned when it is set, else
\* create_pool is called and awaited
GetPoolEnters(c) ==
    /\ callers[c].pc = "outside"
    /\ callers' = [callers EXCEPT ![c] =
                      IF pool = NoPool THEN [pc |-> "creating", got |-> NoPool]
                      ELSE [pc |-> "returned", got |-> pool]]
    /\ UNCHANGED <<pool, pools, poolFrame>>

\* create_pool returns a new pool: it is assigned to _pool and returned
CreatePoolReturns(c) ==
    /\ callers[c].pc = "creating"
    /\ Len(pools) < MaxPools
    /\ pools' = Append(pools, "open")
    /\ pool' = Len(pools) + 1
    /\ callers' = [callers EXCEPT ![c] = [pc |-> "returned", got |-> Len(pools) + 1]]
    /\ UNCHANGED poolFrame

\* create_pool raises: the database cannot be reached
CreatePoolRaises(c) ==
    /\ callers[c].pc = "creating"
    /\ callers' = [callers EXCEPT ![c] = [pc |-> "raised", got |-> NoPool]]
    /\ UNCHANGED <<pool, pools, poolFrame>>

\* the caller is done with what it got
Leaves(c) ==
    /\ callers[c].pc \in {"returned", "raised"}
    /\ callers' = [callers EXCEPT ![c] = Outside]
    /\ UNCHANGED <<pool, pools, poolFrame>>

\* close_pool up to its await: the pool _pool names is closed, if there is one
ClosePoolEnters ==
    /\ callers[Shutdown].pc = "outside"
    /\ callers' = [callers EXCEPT ![Shutdown] =
                      IF pool = NoPool THEN [pc |-> "returned", got |-> NoPool]
                      ELSE [pc |-> "closing", got |-> pool]]
    /\ UNCHANGED <<pool, pools, poolFrame>>

\* _pool.close() returns: _pool = None
ClosePoolReturns ==
    /\ callers[Shutdown].pc = "closing"
    /\ pools' = [pools EXCEPT ![callers[Shutdown].got] = "closed"]
    /\ pool' = NoPool
    /\ callers' = [callers EXCEPT ![Shutdown] = [pc |-> "returned", got |-> NoPool]]
    /\ UNCHANGED poolFrame

NextPool ==
    \/ \E c \in PoolUsers : GetPoolEnters(c)
    \/ \E c \in PoolUsers : CreatePoolReturns(c)
    \/ \E c \in PoolUsers : CreatePoolRaises(c)
    \/ \E c \in PoolUsers \cup {Shutdown} : Leaves(c)
    \/ ClosePoolEnters
    \/ ClosePoolReturns

SpecPool == InitPool /\ [][NextPool]_vars

OpenPools == {p \in DOMAIN pools : pools[p] = "open"}

\* C28: whatever the interleaving of get_pool and close_pool calls, there is at
\* most one open pool, it is the pool _pool names, and a caller that has been
\* given an open pool has been given that one
C28_OnePool ==
    /\ Cardinality(OpenPools) <= 1
    /\ \A p \in OpenPools : pool = p
    /\ \A c \in PoolUsers :
           (callers[c].pc = "returned" /\ callers[c].got \in OpenPools)
           => callers[c].got = pool

\* C30: for every date the manual weekday and month table writes what strftime
\* writes under a German locale, the day of the month included, so the date of
\* the header is the same whichever tier produced it
C30_TiersAgree ==
    Returned =>
        /\ StrftimeGerman(now) = ManualDate(now)
        /\ HeaderDateOf(Doc) = ManualDate(now)

============================================================================
